---- MODULE Spec2Model ----
(***************************************************************************)
(* Model of src/lib/services/utils/strings.js of sveltia-cms: the local    *)
(* file scanner (scanFiles), the duplicate-name resolver (renameIfNeeded)  *)
(* and the path normaliser (resolvePath).                                  *)
(*                                                                         *)
(* A JavaScript string is a sequence of one-character strings, so that     *)
(* splitting, prefix tests and regular-expression matches are computed on  *)
(* characters and not assumed.                                             *)
(***************************************************************************)
EXTENDS Integers, Sequences, FiniteSets, TLC

VARIABLES
    rnOrig,     \* renameIfNeeded: the otherNames list as the caller built it
    rnOthers,   \* renameIfNeeded: the caller's otherNames array (shared across calls)
    rnCall      \* renameIfNeeded: the last call: name, otherNames as passed, result

rnVars == <<rnOrig, rnOthers, rnCall>>

VARIABLES
    rpPath,     \* resolvePath: the path given
    rpResult    \* resolvePath: the string returned, once it has returned

rpVars == <<rpPath, rpResult>>

VARIABLES
    scItems,    \* scanFiles: the dropped entry tree, one record per entry
    scAccept,   \* scanFiles: the accept option (optional)
    scPageSize, \* scanFiles: how many entries the host hands over per readEntries call
    scCalled,   \* scanFiles: whether scanFiles has been called
    scPromise,  \* scanFiles: per entry, the state and value of readEntry's promise
    scResult    \* scanFiles: the array the returned promise resolved with (optional)

scVars == <<scItems, scAccept, scPageSize, scCalled, scPromise, scResult>>

vars == <<rnVars, rpVars, scVars>>

----------------------------------------------------------------------------
(* Strings                                                                 *)

Digits == {"0", "1", "2", "3", "4", "5", "6", "7", "8", "9"}

Letters == {"a", "b", "j", "B"}

\* [a-zA-Z0-9] of the name pattern
IsAlnum(c) == c \in Digits \cup Letters

DigitVal(c) ==
    CASE c = "0" -> 0 [] c = "1" -> 1 [] c = "2" -> 2 [] c = "3" -> 3
      [] c = "4" -> 4 [] c = "5" -> 5 [] c = "6" -> 6 [] c = "7" -> 7
      [] c = "8" -> 8 [] c = "9" -> 9

DigitChar(d) == <<"0", "1", "2", "3", "4", "5", "6", "7", "8", "9">>[d + 1]

\* Number("007") = 7: the decimal value of a digit string
RECURSIVE ToNumber(_)
ToNumber(ds) ==
    IF ds = <<>> THEN 0
    ELSE 10 * ToNumber(SubSeq(ds, 1, Len(ds) - 1)) + DigitVal(ds[Len(ds)])

\* `${number}`: the decimal digits of a natural number, no leading zero
RECURSIVE NumberToString(_)
NumberToString(n) ==
    IF n < 10 THEN <<DigitChar(n)>>
    ELSE NumberToString(n \div 10) \o <<DigitChar(n % 10)>>

RECURSIVE Flatten(_)
Flatten(seqs) == IF seqs = <<>> THEN <<>> ELSE seqs[1] \o Flatten(Tail(seqs))

Range(f) == {f[i] : i \in DOMAIN f}

StartsWith(s, p) == Len(p) <= Len(s) /\ SubSeq(s, 1, Len(p)) = p

Tail_(s, k) == SubSeq(s, k + 1, Len(s))

\* String.prototype.split(sep) for a one-character separator: always at
\* least one part, empty parts kept
RECURSIVE Split(_, _)
Split(s, sep) ==
    IF \A i \in 1..Len(s) : s[i] # sep THEN <<s>>
    ELSE LET k == CHOOSE i \in 1..Len(s) :
                      s[i] = sep /\ \A j \in 1..(i - 1) : s[j] # sep
         IN  <<SubSeq(s, 1, k - 1)>> \o Split(Tail_(s, k), sep)

\* Array.prototype.join(sep)
RECURSIVE Join(_, _)
Join(parts, sep) ==
    IF parts = <<>> THEN <<>>
    ELSE IF Len(parts) = 1 THEN parts[1]
    ELSE parts[1] \o <<sep>> \o Join(Tail(parts), sep)

\* String.prototype.localeCompare with the default (root) collation: strings
\* are compared on the primary weights of their characters (punctuation
\* before digits before letters, case ignored), and only when those agree
\* on case (lower case first).
PrimaryWeight(c) ==
    CASE c = "-" -> 1 [] c = "." -> 2 [] c = "/" -> 3 [] c = "*" -> 4
      [] c \in Digits -> 10 + DigitVal(c)
      [] c = "a" -> 20 [] c \in {"b", "B"} -> 21 [] c = "j" -> 29

TertiaryWeight(c) == IF c = "B" THEN 1 ELSE 0

RECURSIVE LexCompare(_, _)
LexCompare(u, v) ==
    IF u = <<>> THEN (IF v = <<>> THEN 0 ELSE -1)
    ELSE IF v = <<>> THEN 1
    ELSE IF u[1] < v[1] THEN -1
    ELSE IF u[1] > v[1] THEN 1
    ELSE LexCompare(Tail(u), Tail(v))

localeCompare(a, b) ==
    LET p == LexCompare([i \in 1..Len(a) |-> PrimaryWeight(a[i])],
                        [i \in 1..Len(b) |-> PrimaryWeight(b[i])])
    IN  IF p # 0 THEN p
        ELSE LexCompare([i \in 1..Len(a) |-> TertiaryWeight(a[i])],
                        [i \in 1..Len(b) |-> TertiaryWeight(b[i])])

----------------------------------------------------------------------------
(* renameIfNeeded                                                          *)

\* An optional value (a failed match, an unset capture group, undefined) is a
\* sequence of at most one element.
Undefined == <<>>
Some(x) == <<x>>

\* name.match(/(.+?)(?:\.([a-zA-Z0-9]+?))?$/): the lazy slug grows one
\* character at a time from the start of the name until the rest is either
\* empty or a dot followed by alphanumerics up to the end
IsExtensionPart(rest) ==
    /\ Len(rest) >= 2
    /\ rest[1] = "."
    /\ \A i \in 2..Len(rest) : IsAlnum(rest[i])

RECURSIVE MatchNameFrom(_, _)
MatchNameFrom(name, k) ==
    LET rest == Tail_(name, k)
    IN  IF IsExtensionPart(rest)
            THEN [slug |-> SubSeq(name, 1, k), extension |-> Some(Tail(rest))]
        ELSE IF rest = <<>>
            THEN [slug |-> SubSeq(name, 1, k), extension |-> Undefined]
        ELSE MatchNameFrom(name, k + 1)

\* the slug and the extension of a non-empty name
MatchName(name) == MatchNameFrom(name, 1)

\* `\\.${extension}` or '': what the pattern and the result put after the slug
DotExtension(extension) ==
    IF extension = Undefined THEN <<>> ELSE <<".">> \o extension[1]

\* p.match(regex) for regex = ^<escaped slug>(?:-(\d+?))?<\.extension>$:
\* whether p matches, and the captured group 1 when it took part
MatchDupExact(p, slug, extension) ==
    [matched |-> p = slug \o DotExtension(extension), group |-> Undefined]

MatchDup(p, slug, extension) ==
    LET ext == DotExtension(extension)
        rest == Tail_(p, Len(slug))
        digits == SubSeq(rest, 2, Len(rest) - Len(ext))
    IN  IF ~StartsWith(p, slug) THEN [matched |-> FALSE, group |-> Undefined]
        ELSE IF rest = ext THEN [matched |-> TRUE, group |-> Undefined]
        ELSE IF /\ Len(rest) >= 2 + Len(ext)
                /\ rest[1] = "-"
                /\ Tail_(rest, Len(rest) - Len(ext)) = ext
                /\ \A i \in 1..Len(digits) : digits[i] \in Digits
            THEN [matched |-> TRUE, group |-> Some(digits)]
        ELSE [matched |-> FALSE, group |-> Undefined]

\* Array.prototype.sort with a comparator that localeCompare()s a key of each
\* element. The sort is stable: an element goes after every element whose
\* key does not compare greater than its own. Elements are <<key, item>>.
RECURSIVE InsertSorted(_, _)
InsertSorted(sorted, x) ==
    IF sorted = <<>> THEN <<x>>
    ELSE IF localeCompare(sorted[Len(sorted)][1], x[1]) <= 0 THEN Append(sorted, x)
    ELSE Append(InsertSorted(SubSeq(sorted, 1, Len(sorted) - 1), x), sorted[Len(sorted)])

RECURSIVE SortKeyed(_)
SortKeyed(arr) ==
    IF arr = <<>> THEN <<>>
    ELSE InsertSorted(SortKeyed(SubSeq(arr, 1, Len(arr) - 1)), arr[Len(arr)])

\* the key of the comparator (a, b) => a.split('.')[0].localeCompare(b.split('.')[0])
FirstPart(a) == Split(a, ".")[1]

\* what otherNames.sort(...) leaves in the array it is called on
SortOtherNamesCopy(otherNames) == otherNames

SortOtherNames(otherNames) ==
    LET keyed == SortKeyed([i \in 1..Len(otherNames) |-> <<FirstPart(otherNames[i]), otherNames[i]>>])
    IN  [i \in 1..Len(keyed) |-> keyed[i][2]]

\* Array.prototype.findLast(p => p.match(regex)): scans from the end
RECURSIVE FindLastDup(_, _, _)
FindLastDup(arr, slug, extension) ==
    IF arr = <<>> THEN Undefined
    ELSE IF MatchDup(arr[Len(arr)], slug, extension).matched THEN Some(arr[Len(arr)])
    ELSE FindLastDup(SubSeq(arr, 1, Len(arr) - 1), slug, extension)

IncrementKeep(group) == IF group = Undefined THEN 0 ELSE ToNumber(group[1])

\* Number(group ?? 0) + 1
Increment(group) == (IF group = Undefined THEN 0 ELSE ToNumber(group[1])) + 1

\* the value renameIfNeeded returns for a non-empty name
renameIfNeeded(name, otherNames) ==
    IF otherNames = <<>> THEN name
    ELSE LET m == MatchName(name)
             dupName == FindLastDup(SortOtherNames(otherNames), m.slug, m.extension)
         IN  IF dupName = Undefined THEN name
             ELSE m.slug \o <<"-">>
                    \o NumberToString(Increment(MatchDup(dupName[1], m.slug, m.extension).group))
                    \o DotExtension(m.extension)

\* what the call leaves in the caller's array: the sort is in place
OtherNamesAfter(otherNames) ==
    IF otherNames = <<>> THEN otherNames ELSE SortOtherNames(otherNames)


----------------------------------------------------------------------------
(* createPath and resolvePath                                              *)

\* a tombstoned slot of the segments array
Null == <<>>

\* !!s for a slot: null and the empty string are falsy
Truthy(s) == s # Null /\ s[1] # <<>>

RECURSIVE FilterBoolean(_)
FilterBoolean(slots) ==
    IF slots = <<>> THEN <<>>
    ELSE (IF Truthy(slots[1]) THEN <<slots[1][1]>> ELSE <<>>) \o FilterBoolean(Tail(slots))

\* segments.filter(Boolean).join('/')
createPath(segments) == Join(FilterBoolean(segments), "/")

Dot == <<".">>
DotDot == <<".", ".">>

\* segments.findLastIndex((s, i) => !!s && i < index), 0 for -1
findLastIndex(segments, index) ==
    LET found == {i \in 1..(index - 1) : Truthy(segments[i])}
    IN  IF found = {} THEN 0 ELSE CHOOSE i \in found : \A j \in found : j <= i

\* the forEach callback for every index from `index` on; the segment it is
\* given is the slot's content when the index is visited
RECURSIVE forEachSegment(_, _, _)
forEachSegment(segments, index, nameFound) ==
    IF index > Len(segments) THEN segments
    ELSE LET segment == segments[index]
         IN  IF segment = Some(Dot) \/ segment = Some(DotDot)
             THEN IF nameFound
                  THEN LET removed == [segments EXCEPT ![index] = Null]
                           lastIndex == findLastIndex(removed, index)
                       IN  IF segment = Some(DotDot) /\ lastIndex > 0
                           THEN forEachSegment([removed EXCEPT ![lastIndex] = Null],
                                               index + 1, nameFound)
                           ELSE forEachSegment(removed, index + 1, nameFound)
                  ELSE forEachSegment(segments, index + 1, nameFound)
             ELSE forEachSegment(segments, index + 1, TRUE)

resolvePath(path) ==
    LET parts == Split(path, "/")
        segments == [i \in 1..Len(parts) |-> Some(parts[i])]
    IN  createPath(forEachSegment(segments, 1, FALSE))

----------------------------------------------------------------------------
(* scanFiles                                                               *)

\* accept.trim()
RECURSIVE TrimStart(_)
TrimStart(s) == IF s # <<>> /\ s[1] = " " THEN TrimStart(Tail(s)) ELSE s

RECURSIVE TrimEnd(_)
TrimEnd(s) ==
    IF s # <<>> /\ s[Len(s)] = " " THEN TrimEnd(SubSeq(s, 1, Len(s) - 1)) ELSE s

Trim(s) == TrimEnd(TrimStart(s))

\* split(/,\s*/g): a separator is a comma with the white space after it
RECURSIVE SplitCommas(_)
SplitCommas(s) ==
    IF \A i \in 1..Len(s) : s[i] # "," THEN <<s>>
    ELSE LET k == CHOOSE i \in 1..Len(s) :
                      s[i] = "," /\ \A j \in 1..(i - 1) : s[j] # ","
         IN  <<SubSeq(s, 1, k - 1)>> \o SplitCommas(TrimStart(Tail_(s, k)))

\* accept ? accept.trim().split(/,\s*/g) : []
fileTypes(accept) ==
    IF accept = Undefined \/ accept[1] = <<>> THEN <<>> ELSE SplitCommas(Trim(accept[1]))

\* the test of one accepted type in the file() callback
MatchesMimeTypeLoose(fileType, mimeType) ==
    Split(fileType, "/")[1] = Split(mimeType, "/")[1]

MatchesMimeType(fileType, mimeType) ==
    LET parts == Split(mimeType, "/")
    IN  IF Len(parts) >= 2 /\ parts[2] = <<"*">>
        THEN Split(fileType, "/")[1] = parts[1]
        ELSE fileType = mimeType

isValidType(fileType, accept) ==
    \/ fileTypes(accept) = <<>>
    \/ \E i \in DOMAIN fileTypes(accept) : MatchesMimeType(fileType, fileTypes(accept)[i])

\* entry.name.startsWith('.')
IsHidden(name) == StartsWith(name, <<".">>)

\* the entries whose parent is p (0: the dropped items), in their order
ChildrenOf(items, p) == SelectSeq([i \in 1..Len(items) |-> i], LAMBDA i : items[i].parent = p)

\* what the one readEntries() call of a directory's reader hands over: the
\* first batch only
FirstBatch(items, p, pageSize) ==
    LET all == ChildrenOf(items, p)
    IN  SubSeq(all, 1, IF Len(all) < pageSize THEN Len(all) ELSE pageSize)

\* the items for which webkitGetAsEntry() gave an entry: readEntry is called
\* on each; the others map to null
NoPromise == [state |-> "none", value |-> <<>>]

\* readEntry(entry) up to its first host call: a hidden entry resolves to null
\* at once, otherwise file() or readEntries() is now in flight. An item
\* without an entry is null in the array given to Promise.all.
readEntry(entry) ==
    IF entry.kind = "none" THEN [state |-> "resolved", value |-> <<0>>]
    ELSE IF IsHidden(entry.name) THEN [state |-> "resolved", value |-> <<0>>]
    ELSE [state |-> "pending", value |-> <<>>]

\* whether the promise of entry i has settled: a directory's promise is
\* resolved with Promise.all of its entries' promises
RECURSIVE Settled(_, _, _, _)
Settled(items, pageSize, promise, i) ==
    \/ promise[i].state = "resolved"
    \/ /\ promise[i].state = "read"
       /\ \A k \in DOMAIN FirstBatch(items, i, pageSize) :
              Settled(items, pageSize, promise, FirstBatch(items, i, pageSize)[k])

\* the value a settled promise has, flattened (.flat(100000)): 0 is null, any
\* other number the File of that entry; Promise.all keeps the order of the
\* promises it was given
RECURSIVE ValueOf(_, _, _, _)
ValueOf(items, pageSize, promise, i) ==
    IF promise[i].state = "resolved" THEN promise[i].value
    ELSE LET batch == FirstBatch(items, i, pageSize)
         IN  Flatten([k \in DOMAIN batch |-> ValueOf(items, pageSize, promise, batch[k])])

\* .sort((a, b) => a.name.localeCompare(b.name))
SortUnsorted(items, files) == files

SortByName(items, files) ==
    LET keyed == SortKeyed([k \in DOMAIN files |-> <<items[files[k]].name, files[k]>>])
    IN  [k \in DOMAIN keyed |-> keyed[k][2]]

\* what the awaited Promise.all of the items gives once every promise has
\* settled: flattened, nulls filtered out, sorted
Gathered(items, pageSize, promise) ==
    LET roots == ChildrenOf(items, 0)
        flat == Flatten([k \in DOMAIN roots |-> ValueOf(items, pageSize, promise, roots[k])])
    IN  SortByName(items, SelectSeq(flat, LAMBDA f : f # 0))

\* the microtasks after a callback: when the last promise settles, the
\* function returns the gathered list
ResultAfter(items, pageSize, promise, result) ==
    IF /\ result = Undefined
       /\ \A k \in DOMAIN ChildrenOf(items, 0) :
              Settled(items, pageSize, promise, ChildrenOf(items, 0)[k])
    THEN Some(Gathered(items, pageSize, promise))
    ELSE result

----------------------------------------------------------------------------
(* Calls of renameIfNeeded on one shared otherNames array                  *)

MaxOthers == 2

\* file names and slugs: the stem a with an optional numeric suffix and an
\* optional extension, and the stem . (a slug without a first part) with an
\* optional numeric suffix
NameSuffixes == {<<>>, <<"-", "1">>, <<"-", "0", "1">>, <<"-", "9">>, <<"-", "1", "0">>, <<"-">>}
NameExtensions == {<<>>, <<".", "j">>, <<".">>}
DotNameSuffixes == {<<>>, <<"-", "1">>, <<"-", "9">>, <<"-", "1", "0">>}
NamePool ==
    {<<"a">> \o su \o ex : su \in NameSuffixes, ex \in NameExtensions}
    \cup {<<".">> \o su : su \in DotNameSuffixes}

\* the names to resolve: the unnumbered names of the pool, and a numbered one
\* (in the pool a numbered name has no variant but itself)
CallNames == {<<"a">> \o ex : ex \in NameExtensions} \cup {<<".">>, <<"a", "-", "1">>}

NameLists == UNION {[1..n -> NamePool] : n \in 0..MaxOthers}

RenameInit ==
    /\ rnOrig \in NameLists
    /\ rnOthers = rnOrig
    /\ rnCall = [called |-> FALSE, name |-> <<>>, otherNames |-> <<>>, result |-> <<>>]

\* one call renameIfNeeded(name, otherNames) with the shared array; any
\* number of calls follow one another
Rename(name) ==
    /\ rnCall' = [called |-> TRUE, name |-> name, otherNames |-> rnOthers,
                  result |-> renameIfNeeded(name, rnOthers)]
    /\ rnOthers' = OtherNamesAfter(rnOthers)
    /\ UNCHANGED <<rnOrig, rpVars, scVars>>

RenameNext == \E name \in CallNames : Rename(name)

RenameIdle ==
    /\ rnOrig = <<>>
    /\ rnOthers = <<>>
    /\ rnCall = [called |-> FALSE, name |-> <<>>, otherNames |-> <<>>, result |-> <<>>]

----------------------------------------------------------------------------
(* Calls of resolvePath                                                    *)

MaxSegments == 5

\* path segments: empty (from `//` or a leading or trailing slash), the dot
\* segments, plain names and a hidden name
PathSegments == {<<>>, Dot, DotDot, <<"a">>, <<"b">>, <<".", "a">>}

Paths == {Join(segs, "/") : segs \in UNION {[1..n -> PathSegments] : n \in 1..MaxSegments}}

PathInit ==
    /\ rpPath \in Paths
    /\ rpResult = Undefined

PathIdle ==
    /\ rpPath = <<>>
    /\ rpResult = Undefined

ResolvePath ==
    /\ rpResult = Undefined
    /\ rpResult' = Some(resolvePath(rpPath))
    /\ UNCHANGED <<rpPath, rnVars, scVars>>



----------------------------------------------------------------------------
(* A drop handed to scanFiles, and the host's callbacks                    *)

MaxEntries == 3
MaxPageSize == 2

EntryNames == {<<"a">>, <<"B">>, <<".", "a">>}
FileTypes == {<<"i", "/", "p">>, <<"t", "/", "p">>}
AcceptOptions ==
    {Undefined,
     Some(<<"i", "/", "*", ",", " ", "t", "/", "j">>),
     Some(<<"t", "/", "p">>)}

\* An entry of the dropped tree: a file (with the type its File reports), a
\* directory, or (among the dropped items only) an item for which
\* webkitGetAsEntry() gives null. ok tells whether the host can open the file
\* or enumerate the directory; parent is 0 for a dropped item.
Entries(i) ==
    [name : EntryNames, kind : {"file"}, type : FileTypes, ok : BOOLEAN, parent : 0..(i - 1)]
    \cup [name : EntryNames, kind : {"dir"}, type : {<<>>}, ok : BOOLEAN, parent : 0..(i - 1)]
    \cup [name : {<<"a">>}, kind : {"none"}, type : {<<>>}, ok : {TRUE}, parent : {0}]

\* the trees of n entries: an entry's parent comes before it and is a directory
RECURSIVE Trees(_)
Trees(n) ==
    IF n = 0 THEN {<<>>}
    ELSE UNION {{Append(t, e) : e \in {e \in Entries(n) :
                                          e.parent = 0 \/ t[e.parent].kind = "dir"}} :
                   t \in Trees(n - 1)}

ScanInit ==
    /\ scItems \in UNION {Trees(n) : n \in 0..MaxEntries}
    /\ scAccept \in AcceptOptions
    /\ scPageSize \in 1..MaxPageSize
    /\ scCalled = FALSE
    /\ scPromise = [i \in DOMAIN scItems |-> NoPromise]
    /\ scResult = Undefined

ScanIdle ==
    /\ scItems = <<>>
    /\ scAccept = Undefined
    /\ scPageSize = 1
    /\ scCalled = FALSE
    /\ scPromise = <<>>
    /\ scResult = Undefined

\* the call: readEntry on every dropped item, then await Promise.all
ScanFiles ==
    /\ ~scCalled
    /\ scCalled' = TRUE
    /\ LET promise == [i \in DOMAIN scItems |->
                          IF scItems[i].parent = 0 THEN readEntry(scItems[i]) ELSE NoPromise]
       IN  /\ scPromise' = promise
           /\ scResult' = ResultAfter(scItems, scPageSize, promise, scResult)
    /\ UNCHANGED <<scItems, scAccept, scPageSize, rnVars, rpVars>>

\* the host opens file i and calls the success callback of file()
FileCallback(i) ==
    /\ scItems[i].kind = "file" /\ scPromise[i].state = "pending" /\ scItems[i].ok
    /\ LET promise == [scPromise EXCEPT ![i] =
                          [state |-> "resolved",
                           value |-> IF isValidType(scItems[i].type, scAccept)
                                     THEN <<i>> ELSE <<0>>]]
       IN  /\ scPromise' = promise
           /\ scResult' = ResultAfter(scItems, scPageSize, promise, scResult)
    /\ UNCHANGED <<scItems, scAccept, scPageSize, scCalled, rnVars, rpVars>>

\* the host cannot open file i and calls the error callback of file()
FileError(i) ==
    /\ scItems[i].kind = "file" /\ scPromise[i].state = "pending" /\ ~scItems[i].ok
    /\ LET promise == [scPromise EXCEPT ![i] = [state |-> "resolved", value |-> <<0>>]]
       IN  /\ scPromise' = promise
           /\ scResult' = ResultAfter(scItems, scPageSize, promise, scResult)
    /\ UNCHANGED <<scItems, scAccept, scPageSize, scCalled, rnVars, rpVars>>

\* the host hands the first batch of directory i to the callback of
\* readEntries(): readEntry on each entry of the batch; the directory's
\* promise is resolved with Promise.all of theirs
ReadEntriesCallback(i) ==
    /\ scItems[i].kind = "dir" /\ scPromise[i].state = "pending" /\ scItems[i].ok
    /\ LET batch == FirstBatch(scItems, i, scPageSize)
           promise == [j \in DOMAIN scPromise |->
                          IF j = i THEN [state |-> "read", value |-> <<>>]
                          ELSE IF j \in Range(batch) THEN readEntry(scItems[j])
                          ELSE scPromise[j]]
       IN  /\ scPromise' = promise
           /\ scResult' = ResultAfter(scItems, scPageSize, promise, scResult)
    /\ UNCHANGED <<scItems, scAccept, scPageSize, scCalled, rnVars, rpVars>>

\* the host cannot enumerate directory i: readEntries() was given no error
\* callback, so nothing runs and the directory's promise stays pending
ReadEntriesError(i) ==
    /\ scItems[i].kind = "dir" /\ scPromise[i].state = "pending" /\ ~scItems[i].ok
    /\ scPromise' = [scPromise EXCEPT ![i] = [state |-> "failed", value |-> <<>>]]
    /\ UNCHANGED <<scItems, scAccept, scPageSize, scCalled, scResult, rnVars, rpVars>>

ScanNext ==
    \/ ScanFiles
    \/ \E i \in DOMAIN scItems : FileCallback(i)
    \/ \E i \in DOMAIN scItems : FileError(i)
    \/ \E i \in DOMAIN scItems : ReadEntriesCallback(i)
    \/ \E i \in DOMAIN scItems : ReadEntriesError(i)

\* one specification per function: the other two functions are not called
InitRename == RenameInit /\ PathIdle /\ ScanIdle

InitPath == PathInit /\ RenameIdle /\ ScanIdle

InitScan == ScanInit /\ RenameIdle /\ PathIdle

SpecRename == InitRename /\ [][RenameNext]_vars

SpecPath == InitPath /\ [][ResolvePath]_vars

SpecScan == InitScan /\ [][ScanNext]_vars

----------------------------------------------------------------------------
(* Properties of renameIfNeeded                                            *)

\* The split of a name the properties speak of: the extension is what follows
\* the last dot when that is alphanumeric, not empty, and the dot is not the
\* first character; the slug is the rest.
ExtDots(name) ==
    {i \in 2..(Len(name) - 1) : name[i] = "." /\ \A j \in (i + 1)..Len(name) : IsAlnum(name[j])}

SlugOf(name) ==
    IF ExtDots(name) = {} THEN name
    ELSE SubSeq(name, 1, (CHOOSE i \in ExtDots(name) : TRUE) - 1)

\* the extension with its dot, empty when the name has none
DotExtOf(name) ==
    IF ExtDots(name) = {} THEN <<>>
    ELSE SubSeq(name, CHOOSE i \in ExtDots(name) : TRUE, Len(name))

\* what stands in p between the slug and the extension of name; nothing when p
\* is not the slug followed by something followed by that extension (an
\* optional value)
Middle(p, name) ==
    LET slug == SlugOf(name)
        ext == DotExtOf(name)
    IN  IF /\ Len(p) >= Len(slug) + Len(ext)
           /\ SubSeq(p, 1, Len(slug)) = slug
           /\ SubSeq(p, Len(p) - Len(ext) + 1, Len(p)) = ext
        THEN <<SubSeq(p, Len(slug) + 1, Len(p) - Len(ext))>>
        ELSE <<>>

IsDashDigits(m) == Len(m) >= 2 /\ m[1] = "-" /\ \A i \in 2..Len(m) : m[i] \in Digits

\* p is `slug-<digits>.ext`
IsNumberedVariant(p, name) == Middle(p, name) # <<>> /\ IsDashDigits(Middle(p, name)[1])

\* p is `slug.ext` or `slug-<digits>.ext`
IsVariant(p, name) == p = name \/ IsNumberedVariant(p, name)

\* the numeric suffix of a variant, 0 when there is none
SuffixNumber(p, name) ==
    IF IsNumberedVariant(p, name) THEN ToNumber(Tail(Middle(p, name)[1])) ELSE 0

\* the part of a name before its first dot
BeforeFirstDot(p) ==
    LET n == CHOOSE k \in 0..Len(p) :
                 /\ \A i \in 1..k : p[i] # "."
                 /\ k < Len(p) => p[k + 1] = "."
    IN  SubSeq(p, 1, n)

\* position i of the list comes before position j once the list is ordered by
\* the part before the first dot (equal parts keep their order)
ComesBefore(list, i, j) ==
    LET c == localeCompare(BeforeFirstDot(list[i]), BeforeFirstDot(list[j]))
    IN  c < 0 \/ (c = 0 /\ i < j)

VariantPositions(list, name) == {i \in DOMAIN list : IsVariant(list[i], name)}

\* the variant of name that comes last in that order
LastVariant(list, name) ==
    list[CHOOSE i \in VariantPositions(list, name) :
             \A j \in VariantPositions(list, name) \ {i} : ComesBefore(list, j, i)]

Numbered(name, n) == SlugOf(name) \o <<"-">> \o NumberToString(n) \o DotExtOf(name)

Called == rnCall.called

\* C5: renameIfNeeded returns name unchanged when otherNames holds no variant
\* of it (slug or slug-<digits>, with the same extension), and otherwise
\* slug-<n+1>.ext, n the numeric suffix of the variant that comes last when
\* otherNames is ordered by the part of each name before its first dot.
C5_RenameResult ==
    Called =>
        LET name == rnCall.name
            list == rnCall.otherNames
        IN  IF VariantPositions(list, name) = {}
            THEN rnCall.result = name
            ELSE rnCall.result = Numbered(name, SuffixNumber(LastVariant(list, name), name) + 1)

\* the documented example photo.jpg, [photo.jpg, photo-1.jpg] -> photo-2.jpg
C5_Witness ==
    /\ Called
    /\ rnCall.name = <<"a", ".", "j">>
    /\ rnCall.otherNames = <<<<"a", ".", "j">>, <<"a", "-", "1", ".", "j">>>>
    /\ rnCall.result = <<"a", "-", "2", ".", "j">>

\* C6 as stated: the result is name itself or a name that is not in otherNames.
C6_ResultNotInOtherNames ==
    Called => \/ rnCall.result = rnCall.name
              \/ rnCall.result \notin Range(rnCall.otherNames)

\* C6 amended: a renamed result differs from name, and it is not in
\* otherNames whenever the variant it was derived from (the last in first-part
\* order) carries the largest numeric suffix among the variants in otherNames.
DerivedFromLargest(list, name) ==
    \A i \in VariantPositions(list, name) :
        SuffixNumber(list[i], name) <= SuffixNumber(LastVariant(list, name), name)

C6_FreshWhenDerivedFromLargest ==
    (Called /\ VariantPositions(rnCall.otherNames, rnCall.name) # {}) =>
        /\ rnCall.result # rnCall.name
        /\ DerivedFromLargest(rnCall.otherNames, rnCall.name)
             => rnCall.result \notin Range(rnCall.otherNames)

C6_Witness ==
    /\ Called
    /\ rnCall.name = <<"a">>
    /\ rnCall.otherNames = <<<<"a", "-", "9">>, <<"a">>>>
    /\ DerivedFromLargest(rnCall.otherNames, rnCall.name)
    /\ rnCall.result = <<"a", "-", "1", "0">>

\* otherNames is not empty and holds numbered variants of name only
OnlyNumberedVariants(list, name) ==
    /\ list # <<>>
    /\ \A i \in DOMAIN list : list[i] # name /\ IsNumberedVariant(list[i], name)

\* C7 as stated: numbered variants alone are no duplicate, name comes back unchanged.
C7_NumberedVariantsAloneKeepName ==
    (Called /\ OnlyNumberedVariants(rnCall.otherNames, rnCall.name))
        => rnCall.result = rnCall.name

\* C7 amended: numbered variants alone do count as duplicates: the result is
\* not name but slug-<n+1>.ext with n >= 1 the suffix of one of them.
C7_NumberedVariantsAloneRename ==
    (Called /\ OnlyNumberedVariants(rnCall.otherNames, rnCall.name)) =>
        /\ rnCall.result # rnCall.name
        /\ \E i \in DOMAIN rnCall.otherNames :
               rnCall.result = Numbered(rnCall.name, SuffixNumber(rnCall.otherNames[i], rnCall.name) + 1)

\* photo.jpg, [photo-1.jpg] -> photo-2.jpg
C7_Witness ==
    /\ Called
    /\ rnCall.name = <<"a", ".", "j">>
    /\ rnCall.otherNames = <<<<"a", "-", "1", ".", "j">>>>
    /\ rnCall.result = <<"a", "-", "2", ".", "j">>

\* C8: a call leaves the caller's otherNames array as it was, and every call
\* on the shared array returns what it returns on a fresh copy of the
\* original list.
C8_CallLeavesOtherNames ==
    Called => /\ rnOthers = rnCall.otherNames
              /\ rnCall.result = renameIfNeeded(rnCall.name, rnOrig)


----------------------------------------------------------------------------
(* Properties of resolvePath                                               *)

IsDotSegment(seg) == seg = Dot \/ seg = DotDot

\* the `.`/`..` segments before the first other segment
RECURSIVE LeadingDots(_)
LeadingDots(segs) ==
    IF segs = <<>> \/ ~IsDotSegment(segs[1]) THEN <<>>
    ELSE <<segs[1]>> \o LeadingDots(Tail(segs))

Returned == rpResult # Undefined

\* C9: the dot segments that precede the first real (non-dot) segment of the
\* path all stand, unchanged and in order, at the start of the result.
C9_LeadingDotsKept ==
    Returned => StartsWith(Split(rpResult[1], "/"), LeadingDots(Split(rpPath, "/")))

\* The normal form C10 describes, computed with a stack: dot segments before
\* the first other segment are kept; afterwards `.` is dropped and `..` is
\* dropped together with the nearest real (named) segment still kept; every
\* other non-empty segment is kept in order.
RECURSIVE Normalised(_, _, _, _)
Normalised(segs, lead, kept, nameFound) ==
    IF segs = <<>> THEN lead \o kept
    ELSE IF IsDotSegment(segs[1])
        THEN IF ~nameFound THEN Normalised(Tail(segs), Append(lead, segs[1]), kept, nameFound)
             ELSE IF segs[1] = DotDot /\ kept # <<>>
                 THEN Normalised(Tail(segs), lead, SubSeq(kept, 1, Len(kept) - 1), nameFound)
             ELSE Normalised(Tail(segs), lead, kept, nameFound)
    ELSE Normalised(Tail(segs), lead,
                    IF segs[1] = <<>> THEN kept ELSE Append(kept, segs[1]), TRUE)

\* C10: every `.` and `..` after the first real segment is removed, each such
\* `..` also removes the nearest preceding real segment not yet removed, and
\* all other non-empty segments are kept in order, joined by `/`.
C10_DotsResolved ==
    Returned => rpResult[1] = Join(Normalised(Split(rpPath, "/"), <<>>, <<>>, FALSE), "/")


----------------------------------------------------------------------------
(* Properties of scanFiles                                                 *)

Resolved == scResult # Undefined

\* the entries from a dropped item down to entry i
RECURSIVE PathTo(_)
PathTo(i) ==
    IF scItems[i].parent = 0 THEN <<i>> ELSE Append(PathTo(scItems[i].parent), i)

\* the directories above entry i
Above(i) == Range(PathTo(i)) \ {i}

\* no name on the path of entry i begins with a dot
NotHidden(i) == \A j \in Range(PathTo(i)) : scItems[j].name[1] # "."

\* the filter as the list of its patterns
Patterns == Range(fileTypes(scAccept))

IsWildcard(pattern) ==
    Len(pattern) >= 2 /\ SubSeq(pattern, Len(pattern) - 1, Len(pattern)) = <<"/", "*">>

\* the primary category of a type or pattern: what stands before its slash
Category(t) == SubSeq(t, 1, (CHOOSE k \in 1..Len(t) : t[k] = "/" /\ \A j \in 1..(k - 1) : t[j] # "/") - 1)

SatisfiesFilter(type) ==
    \/ Patterns = {}
    \/ \E pattern \in Patterns :
          IF IsWildcard(pattern) THEN Category(type) = Category(pattern)
          ELSE type = pattern

\* C1: every file of the returned list is admissible: its type satisfies the
\* filter, and neither its name nor the name of a directory on its path
\* begins with a dot.
C1_OnlyAdmissibleFiles ==
    Resolved => \A k \in DOMAIN scResult[1] :
                    LET f == scResult[1][k]
                    IN  /\ scItems[f].kind = "file"
                        /\ SatisfiesFilter(scItems[f].type)
                        /\ NotHidden(f)

\* a scan under a filter that returned a file, turned a visible readable file
\* down for its type, and skipped a hidden entry
C1_Witness ==
    /\ Resolved
    /\ Patterns # {}
    /\ scResult[1] # <<>>
    /\ \E g \in DOMAIN scItems :
          /\ scItems[g].kind = "file" /\ scItems[g].ok /\ NotHidden(g)
          /\ ~SatisfiesFilter(scItems[g].type)
          /\ scPromise[g] = [state |-> "resolved", value |-> <<0>>]
    /\ \E h \in DOMAIN scItems : ~NotHidden(h)

\* entry i is in the one batch the scan gets of its directory, and so is every
\* directory above it
Delivered(i) ==
    \A j \in Range(PathTo(i)) :
        scItems[j].parent # 0 =>
            Cardinality({q \in 1..(j - 1) : scItems[q].parent = scItems[j].parent}) < scPageSize

\* the files a finished scan has found, as the tree alone determines them
Found ==
    {f \in DOMAIN scItems :
        /\ scItems[f].kind = "file" /\ scItems[f].ok
        /\ SatisfiesFilter(scItems[f].type)
        /\ NotHidden(f)
        /\ Delivered(f)}

\* x stands before y in the tree (depth first, entries in their order)
TreeBefore(x, y) == LexCompare(PathTo(x), PathTo(y)) < 0

\* C2: the returned list is sorted ascending by name, and it is the sequence
\* the tree and the filter alone determine (files of one name in tree order),
\* whatever order the file() and readEntries() callbacks fired in.
C2_SortedAndDetermined ==
    Resolved =>
        LET r == scResult[1]
        IN  /\ Range(r) = Found
            /\ Len(r) = Cardinality(Found)
            /\ \A k \in 1..(Len(r) - 1) :
                   LET c == localeCompare(scItems[r[k]].name, scItems[r[k + 1]].name)
                   IN  c < 0 \/ (c = 0 /\ TreeBefore(r[k], r[k + 1]))

\* two files of one name from different folders, returned against the order
\* in which their reads were started
C2_Witness ==
    /\ Resolved
    /\ Len(scResult[1]) = 2
    /\ scItems[scResult[1][1]].name = scItems[scResult[1][2]].name
    /\ scItems[scResult[1][1]].parent # scItems[scResult[1][2]].parent
    /\ scResult[1][1] > scResult[1][2]

\* C3: every visible, accessible, matching file from every page of every
\* visible directory is in the returned list.
C3_EveryPageScanned ==
    Resolved =>
        \A f \in DOMAIN scItems :
            (/\ scItems[f].kind = "file" /\ scItems[f].ok
             /\ SatisfiesFilter(scItems[f].type)
             /\ NotHidden(f)
             /\ \A d \in Above(f) : scItems[d].ok)
                => f \in Range(scResult[1])

\* the host has answered every call the scan made
Quiescent == scCalled /\ \A i \in DOMAIN scItems : scPromise[i].state # "pending"

\* C4: whatever files cannot be opened and directories cannot be enumerated,
\* the scan completes: once the host has answered every call, the promise is
\* resolved, and nothing unreadable or below an unreadable directory is in
\* the list.
C4_ScanCompletes ==
    Quiescent =>
        /\ Resolved
        /\ \A k \in DOMAIN scResult[1] :
               \A j \in Range(PathTo(scResult[1][k])) : scItems[j].ok

====
